---- MODULE Spec2Model ----
(***************************************************************************)
(* A model of flask_backend.py: the sliding-window rate limiter, the       *)
(* retrying source clients, the quote aggregator, the opportunity          *)
(* detector, the bounded spread history, the background polling loop and   *)
(* the query handlers that read what the loop publishes.                   *)
(*                                                                         *)
(* Numbers.  Python floats are modelled as exact rationals.  Time is in    *)
(* whole seconds.  A price is an integer number of price ticks; a slippage *)
(* is in basis points (slippage * 10000); a percentage (spread, profit,    *)
(* gas) is a pair <<n, d>> meaning n / d thousandths of a percent, d > 0.  *)
(* Python's hash() is a function fixed per process and unknown to the      *)
(* program: each use is a value drawn from the range the code reduces it   *)
(* to.                                                                     *)
(***************************************************************************)
EXTENDS Integers, Sequences, FiniteSets, TLC

VARIABLES
    now,                    \* time.time(), whole seconds
    api_call_times,         \* api name -> timestamps of the admitted calls kept
    admitted,               \* history: api name -> every timestamp ever admitted
    rlLast,                 \* history: the last rate_limit_check call
    rlSteps,                \* history: clock advances and calls made so far
    fetch,                  \* the running *_with_retry call
    hashes,                 \* the values of hash() in this process
    jupiter_quotes,         \* pair -> the cached quote set and its timestamp
    current_opportunities,  \* the published opportunity list
    price_history,          \* pair -> the stored spread series
    sched,                  \* where background_quote_fetcher stands
    cyc,                    \* history: what the running cycle has done
    complete,               \* history: the list each detection ranked
    appendLog,              \* history: pair -> every spread ever appended
    pollLog,                \* history: the requests and quote sets of the loop
    reader,                 \* a query handler of the Flask threads
    response,               \* the last response a query handler returned
    classified              \* the last route plan classified, and its venue

rlVars == <<api_call_times, admitted, rlLast, rlSteps>>
pollVars == <<hashes, jupiter_quotes, current_opportunities, price_history,
              sched, cyc, complete, appendLog, pollLog>>
vars == <<now, api_call_times, admitted, rlLast, rlSteps, fetch, hashes,
          jupiter_quotes, current_opportunities, price_history, sched, cyc,
          complete, appendLog, pollLog, reader, response, classified>>

(***************************************************************************)
(* Bounds of the model                                                     *)
(***************************************************************************)
MaxTicks == 2
MaxCalls == 17
JitterDen == 2
MaxRetriesTried == 3
MaxFetches == 1
MaxCycles == 2
MaxHistCycles == 45
MaxRouteLen == 3
MaxBudgetCycles == 6

(***************************************************************************)
(* Rate limiter                                                            *)
(***************************************************************************)
Sources == {"jupiter", "coingecko"}

JupiterBudget == 10
CoingeckoBudget == 15
RateWindow == 60

MAX_CALLS_PER_MINUTE == [api \in Sources |->
    IF api = "jupiter" THEN JupiterBudget ELSE CoingeckoBudget]

\* [t for t in api_call_times[api_name] if current_time - t < 60]
PruneOld(times, current_time) ==
    SelectSeq(times, LAMBDA t : current_time - t < RateWindow)

\* The budget test off by one: > where the code has >=.
BudgetSpentLate(kept, api) == Len(kept) > MAX_CALLS_PER_MINUTE[api]

\* len(api_call_times[api_name]) >= MAX_CALLS_PER_MINUTE[api_name]
BudgetSpent(kept, api) == Len(kept) >= MAX_CALLS_PER_MINUTE[api]

\* The value rate_limit_check returns at current_time.
RateLimitAdmits(times, api, current_time) ==
    ~BudgetSpent(PruneOld(times, current_time), api)

\* The list rate_limit_check leaves in api_call_times[api_name].
RateLimitTimes(times, api, current_time) ==
    LET kept == PruneOld(times, current_time)
    IN  IF BudgetSpent(kept, api) THEN kept ELSE Append(kept, current_time)

NoCall == [api |-> "none", ok |-> FALSE, at |-> 0, before |-> <<>>]

RateLimiterInit ==
    /\ now = 0
    /\ api_call_times = [api \in Sources |-> <<>>]
    /\ admitted = [api \in Sources |-> <<>>]
    /\ rlLast = NoCall
    /\ rlSteps = [ticks |-> 0, calls |-> [api \in Sources |-> 0]]

\* One call of rate_limit_check(api_name).
rate_limit_check(api) ==
    LET ok == RateLimitAdmits(api_call_times[api], api, now)
    IN  /\ api_call_times' =
              [api_call_times EXCEPT ![api] = RateLimitTimes(@, api, now)]
        /\ admitted' = [admitted EXCEPT ![api] = IF ok THEN Append(@, now) ELSE @]
        /\ rlLast' = [api |-> api, ok |-> ok, at |-> now,
                      before |-> api_call_times[api]]
        /\ rlSteps' = [rlSteps EXCEPT !.calls[api] = @ + 1]
        /\ UNCHANGED now

(***************************************************************************)
(* Source clients: get_jupiter_quote_with_retry and                        *)
(* get_coingecko_prices_with_retry, the same loop on two sources           *)
(***************************************************************************)
DefaultMaxRetries == 2

\* What one upstream request can come to: status 200, status 429, another
\* status, or an exception of requests.get or response.json().
Responses == {"ok", "throttled", "error_status", "exception"}

\* random.uniform(0, 1) in units of 1 / JitterDen of a second.
Jitters == 0..(JitterDen - 1)

FetchIdle ==
    [pc |-> "idle", api |-> "none", max_retries |-> 0, attempt |-> 0,
     iterations |-> 0, requests |-> 0, sleeps |-> 0, waited |-> 0,
     result |-> "none", calls |-> 0, answers |-> <<>>, sentAt |-> <<>>]

\* The state on entry to the for loop.
FetchEntered(f, api, max_retries) ==
    [pc |-> "running", api |-> api, max_retries |-> max_retries, attempt |-> 0,
     iterations |-> 0, requests |-> 0, sleeps |-> 0, waited |-> 0,
     result |-> "none", calls |-> f.calls + 1, answers |-> <<>>,
     sentAt |-> <<>>]

\* return <value>: the call is over.
Returned(f, result) == [f EXCEPT !.pc = "done", !.result = result]

\* wait_time = (2 ** attempt) + random.uniform(0, 1); await asyncio.sleep(wait_time),
\* then the next iteration of the loop.
Slept(f, j) ==
    [f EXCEPT !.sleeps = @ + 1,
              !.waited = @ + (2 ^ f.attempt) * JitterDen + j,
              !.attempt = @ + 1]

\* The retry test off by one: <= where the code has <.
RetriesRemainLate(f) == f.attempt <= f.max_retries

\* Whether this iteration may sleep and go round again: attempt < max_retries.
RetriesRemain(f) == f.attempt < f.max_retries

\* Every answer but a 200 leads to the backoff.
RetriedAnyFailure(resp) == resp # "ok"

\* The answers the loop backs off on and goes round again for: status 429,
\* and an exception; any other status returns None at once.
Retried(resp) == resp \in {"throttled", "exception"}

\* The denial taken for a failure to back off on.
OnDeniedBackoff(c, times) ==
    [c EXCEPT !.f = Slept([c.f EXCEPT !.iterations = @ + 1], 0),
              !.times = times, !.t = c.t + 2 ^ c.f.attempt]

\* if not rate_limit_check(api): return None
OnDenied(c, times) ==
    [c EXCEPT !.f = Returned([c.f EXCEPT !.iterations = @ + 1], "denied"),
              !.times = times]

\* The limiter asked before the first attempt only: a retry sends its request
\* without an acquisition of its own.
FetchIterationCheckedOnce(c, resp, j) ==
    LET f     == [c.f EXCEPT !.iterations = @ + 1]
        api   == f.api
        first == f.attempt = 0
        ok    == ~first \/ RateLimitAdmits(c.times[api], api, c.t)
        times == IF first
                 THEN [c.times EXCEPT ![api] = RateLimitTimes(@, api, c.t)]
                 ELSE c.times
        adm   == [c.adm EXCEPT ![api] = IF first /\ ok THEN Append(@, c.t) ELSE @]
        sent  == [f EXCEPT !.requests = @ + 1, !.answers = Append(@, resp),
                           !.sentAt = Append(@, c.t)]
        sleep == [c EXCEPT !.f = Slept(sent, j), !.times = times, !.adm = adm,
                           !.t = c.t + 2 ^ f.attempt]
        stop(result) ==
                 [c EXCEPT !.f = Returned(sent, result), !.times = times,
                           !.adm = adm]
    IN  IF c.f.attempt > c.f.max_retries
        THEN [c EXCEPT !.f = Returned(c.f, "exhausted")]
        ELSE IF ~ok
        THEN OnDenied(c, times)
        ELSE IF resp = "ok" THEN stop("ok")
        ELSE IF Retried(resp) /\ RetriesRemain(sent) THEN sleep
        ELSE stop(resp)

\* One iteration of the loop, for attempt = f.attempt, with the upstream
\* answering resp and the jitter drawn j.  c is the context the call runs in:
\* [f: the call, times: api_call_times, adm: the admitted log, t: the clock].
\* f.answers is the history of the answers the call has received, f.sentAt
\* that of the times its requests were sent.
FetchIteration(c, resp, j) ==
    LET f     == [c.f EXCEPT !.iterations = @ + 1]
        api   == f.api
        ok    == RateLimitAdmits(c.times[api], api, c.t)
        times == [c.times EXCEPT ![api] = RateLimitTimes(@, api, c.t)]
        adm   == [c.adm EXCEPT ![api] = IF ok THEN Append(@, c.t) ELSE @]
        sent  == [f EXCEPT !.requests = @ + 1, !.answers = Append(@, resp),
                           !.sentAt = Append(@, c.t)]
        sleep == [c EXCEPT !.f = Slept(sent, j), !.times = times, !.adm = adm,
                           !.t = c.t + 2 ^ f.attempt]
        stop(result) ==
                 [c EXCEPT !.f = Returned(sent, result), !.times = times,
                           !.adm = adm]
    IN  IF c.f.attempt > c.f.max_retries
        THEN [c EXCEPT !.f = Returned(c.f, "exhausted")]   \* range() is over
        ELSE IF ~ok
        THEN OnDenied(c, times)
        ELSE IF resp = "ok" THEN stop("ok")
        ELSE IF Retried(resp) /\ RetriesRemain(sent) THEN sleep
        ELSE stop(resp)

\* The whole call: the loop run to its return, the upstream answering
\* resps[1], resps[2], ... to the requests sent.
RECURSIVE RunFetch(_, _, _)
RunFetch(c, resps, j) ==
    IF c.f.pc # "running" THEN c
    ELSE RunFetch(FetchIteration(c, resps[c.f.requests + 1], j), resps, j)

(***************************************************************************)
(* Configuration                                                           *)
(***************************************************************************)
\* TRADING_PAIRS.keys(), in the order of the dict.
TRADING_PAIRS == <<"SOL/USDC", "RAY/USDC", "ORCA/USDC", "BONK/USDC", "JUP/USDC">>

Pairs == {TRADING_PAIRS[i] : i \in DOMAIN TRADING_PAIRS}

\* ['Raydium', 'Orca', 'Lifinity'], the list both quote loops go through.
Dexes == <<"Raydium", "Orca", "Lifinity">>

\* DEX_PROGRAM_IDS.items(), in the order of the dict.
DEX_PROGRAM_IDS == <<"Raydium", "Orca", "Lifinity">>

\* The values of Python's hash() this process uses.  world.dex[d] is
\* hash(d), world.gas[<<b, s>>] is hash(b + s), world.liq is the hash behind
\* a simulated liquidity, world.walk[i] is hash(pair + str(i)) for the pair a
\* history query names, world.lat is hash(opportunity_id) of a simulated trade,
\* world.conf[p] is hash(p) for a pair p.
HashWorlds ==
    { [dex |-> [d \in {"Raydium", "Orca", "Lifinity"} |-> 0],
       gas |-> [bs \in {"Unknown", "Raydium", "Orca", "Lifinity"}
                       \X {"Unknown", "Raydium", "Orca", "Lifinity"} |-> 0],
       liq |-> 0,
       walk |-> [i \in 0..19 |-> 0],
       lat |-> 0,
       conf |-> [p \in Pairs |-> 29]],
      [dex |-> [d \in {"Raydium", "Orca", "Lifinity"} |->
                   CASE d = "Raydium" -> 7 [] d = "Orca" -> 23 [] OTHER -> 45],
       gas |-> [bs \in {"Unknown", "Raydium", "Orca", "Lifinity"}
                       \X {"Unknown", "Raydium", "Orca", "Lifinity"} |->
                   IF bs[1] = "Raydium" THEN 19 ELSE 4],
       liq |-> 799999,
       walk |-> [i \in 0..19 |-> 37 * i + 113],
       lat |-> 1437,
       conf |-> [p \in Pairs |-> IF p = "SOL/USDC" THEN 60 ELSE 7]] }

(***************************************************************************)
(* Route classifier                                                        *)
(***************************************************************************)
\* A step of a route plan: whether it has 'swapInfo', and which known
\* program id its programId contains ("other": none of them).
RouteStep(swapInfo, programId) == [swapInfo |-> swapInfo, programId |-> programId]

RECURSIVE FirstMatch(_, _)
\* The first step, scanning in order, whose programId holds a known id.
FirstMatch(route_plan, i) ==
    IF i > Len(route_plan) THEN "none"
    ELSE IF route_plan[i].swapInfo
            /\ \E k \in DOMAIN DEX_PROGRAM_IDS :
                   DEX_PROGRAM_IDS[k] = route_plan[i].programId
         THEN route_plan[i].programId
         ELSE FirstMatch(route_plan, i + 1)

\* The classifier without its first test: the fallbacks alone.
identify_dex_by_fallback(route_plan) ==
    IF FirstMatch(route_plan, 1) # "none" THEN FirstMatch(route_plan, 1)
    ELSE IF Len(route_plan) = 1 THEN "Raydium"
    ELSE IF Len(route_plan) > 1 THEN "Orca"
    ELSE "Lifinity"

identify_dex_from_route(route_plan) ==
    IF route_plan = <<>> THEN "Unknown"
    ELSE IF FirstMatch(route_plan, 1) # "none" THEN FirstMatch(route_plan, 1)
    ELSE IF Len(route_plan) = 1 THEN "Raydium"
    ELSE IF Len(route_plan) > 1 THEN "Orca"
    ELSE "Lifinity"

(***************************************************************************)
(* Quote aggregator                                                        *)
(***************************************************************************)
VarianceDen == 10000
BpsDen == 10000

\* price * (1 + variance), variance = v / 10000 with v = hash(...) % 100 - 50.
\* The prices and variances the model draws make the division exact.
Perturbed(price, v) == (price * (VarianceDen + v)) \div VarianceDen

Quote(dex, price, liquidity, slippage, source) ==
    [dex |-> dex, price |-> price, liquidity |-> liquidity,
     slippage |-> slippage, source |-> source]

\* create_quote_from_coingecko(pair, prices, base_dex): <<>> for None, else
\* <<quote>>.  Every configured token is in COINGECKO_TOKEN_MAP.
create_quote_from_coingecko(prices, base_dex, world) ==
    IF prices.base <= 0 \/ prices.quote <= 0 THEN <<>>
    ELSE << Quote(base_dex, prices.base \div prices.quote,
                  300000 + (world.liq % 500000),
                  30 + (world.dex[base_dex] % 20), "coingecko") >>

RECURSIVE CoinGeckoQuotes(_, _, _, _)
\* for dex in ['Raydium', 'Orca', 'Lifinity']: the quotes of the backup path.
CoinGeckoQuotes(prices, variance, world, k) ==
    IF k > Len(Dexes) THEN <<>>
    ELSE LET q == create_quote_from_coingecko(prices, Dexes[k], world)
         IN  (IF q = <<>> THEN <<>>
              ELSE << [q[1] EXCEPT !.price = Perturbed(@, variance[Dexes[k]])] >>)
             \o CoinGeckoQuotes(prices, variance, world, k + 1)

\* The quote built from a Jupiter response.
JupiterQuote(payload, world) ==
    Quote(identify_dex_from_route(payload.routePlan),
          payload.outAmount \div payload.inAmount,
          500000 + (world.liq % 1000000), payload.slippageBps, "jupiter")

\* A simulated quote for each of the three venues, the one of Jupiter's
\* quote included.
SimulatedQuotesForAll(first, variance, world) ==
    [k \in DOMAIN Dexes |->
        Quote(Dexes[k], Perturbed(first.price, variance[Dexes[k]]),
              100000 + (world.liq % 800000), (world.dex[Dexes[k]] % 50) + 10,
              "jupiter_simulated")]

\* The simulated quotes for the venues other than the one Jupiter's quote has.
SimulatedQuotes(first, variance, world) ==
    LET remaining_dexes == SelectSeq(Dexes, LAMBDA d : d # first.dex)
    IN  [k \in DOMAIN remaining_dexes |->
            Quote(remaining_dexes[k],
                  Perturbed(first.price, variance[remaining_dexes[k]]),
                  100000 + (world.liq % 800000),
                  (world.dex[remaining_dexes[k]] % 50) + 10,
                  "jupiter_simulated")]

\* fetch_all_dex_quotes(pair) for a configured pair.  inp is what the outside
\* world answers during the call: inp.jup and inp.cg the responses of the two
\* sources, inp.payload Jupiter's JSON, inp.prices CoinGecko's prices,
\* inp.variance the hash-drawn variance per venue, inp.jitter the jitter,
\* inp.latency the seconds the last request sent waits for its answer.
\* c is [times, adm, t].  The result adds quotes, raised (an exception left
\* the function) and the two client calls made (FetchIdle: not called).
fetch_all_dex_quotes(inp, c, world) ==
    LET start(api) == FetchEntered(FetchIdle, api, DefaultMaxRetries)
        j  == RunFetch([f |-> start("jupiter"), times |-> c.times,
                        adm |-> c.adm, t |-> c.t], inp.jup, inp.jitter)
        out(cc, quotes, raised, cg) ==
            [times |-> cc.times, adm |-> cc.adm,
             t |-> cc.t + (IF cc.f.requests > 0 THEN inp.latency ELSE 0),
             quotes |-> quotes, raised |-> raised, jup |-> j.f, cg |-> cg]
        jupiter_quote == j.f.result = "ok"
        usable == /\ jupiter_quote /\ ~inp.payload.malformed
                  /\ inp.payload.inAmount > 0 /\ inp.payload.outAmount > 0
        g  == RunFetch([f |-> start("coingecko"), times |-> j.times,
                        adm |-> j.adm, t |-> j.t], inp.cg, inp.jitter)
    IN  IF jupiter_quote /\ inp.payload.malformed
        THEN out(j, <<>>, TRUE, FetchIdle)      \* int(...) or .get(...) raises
        ELSE IF usable
        THEN LET first == JupiterQuote(inp.payload, world)
             IN  out(j, <<first>> \o SimulatedQuotes(first, inp.variance, world),
                     FALSE, FetchIdle)
        ELSE IF g.f.result = "ok"
        THEN out(g, CoinGeckoQuotes(inp.prices, inp.variance, world, 1),
                 FALSE, g.f)
        ELSE out(g, <<>>, FALSE, g.f)

(***************************************************************************)
(* Opportunity detector                                                    *)
(***************************************************************************)
MilliPerUnit == 100000      \* a price ratio of 1 is 100 percent, 100000 thousandths
MinSpreadMilli == 100       \* 0.1 percent
GasBaseMilli == 10          \* 0.01 percent
TopN == 10
StaleAfter == 5

\* Percentages are <<n, d>>: n / d thousandths of a percent, d > 0.
RatLess(a, b) == a[1] * b[2] < b[1] * a[2]
RatEq(a, b) == a[1] * b[2] = b[1] * a[2]
RatPos(a) == a[1] > 0

\* ((sell - buy) / buy) * 100
SpreadOf(buy_quote, sell_quote) ==
    << (sell_quote.price - buy_quote.price) * MilliPerUnit, buy_quote.price >>

\* spread > 0.1
SpreadEnough(spread) == spread[1] > MinSpreadMilli * spread[2]

\* spread - buy slippage * 100 - sell slippage * 100
EstimatedProfit(buy_quote, sell_quote) ==
    LET spread == SpreadOf(buy_quote, sell_quote)
    IN  << spread[1] - (buy_quote.slippage + sell_quote.slippage) * 10 * spread[2],
           spread[2] >>

\* 0.01 + (hash(buy dex + sell dex) % 20) / 1000
EstimatedGas(buy_quote, sell_quote, world) ==
    << GasBaseMilli + (world.gas[<<buy_quote.dex, sell_quote.dex>>] % 20), 1 >>

\* estimated_profit - estimated_gas
NetProfit(buy_quote, sell_quote, world) ==
    LET profit == EstimatedProfit(buy_quote, sell_quote)
        gas    == EstimatedGas(buy_quote, sell_quote, world)
    IN  << profit[1] - gas[1] * profit[2], profit[2] >>

\* A break-even trade let through.
ProfitableOrEven(net_profit) == net_profit[1] >= 0

\* net_profit > 0
Profitable(net_profit) == RatPos(net_profit)

\* The two tests a (buy, sell) pair of quotes passes to become an opportunity.
Emits(buy_quote, sell_quote, world) ==
    /\ SpreadEnough(SpreadOf(buy_quote, sell_quote))
    /\ Profitable(NetProfit(buy_quote, sell_quote, world))

\* The confidence score is in thousandths of a point: <<n, d>> is n / d
\* thousandths.
ConfidenceCap == 100
LiquidityDen == 20000
LiquidityWeight == 40
SpreadWeight == 30
JitterRange == 30
JitterWeight == 30

\* The liquidity counted in thousands.
LiquidityTermOfThousands(buy_quote, sell_quote) ==
    ((buy_quote.liquidity + sell_quote.liquidity) \div 1000)
        * ((LiquidityWeight * 1000) \div LiquidityDen)

\* (buy liquidity + sell liquidity) / 20000 * 40
LiquidityTerm(buy_quote, sell_quote) ==
    (buy_quote.liquidity + sell_quote.liquidity)
        * ((LiquidityWeight * 1000) \div LiquidityDen)

\* min(spread / 2, 1) * 30, the spread being spread[1] / spread[2]
\* thousandths of a percent.
SpreadTerm(spread) ==
    IF spread[1] >= 2 * 1000 * spread[2] THEN << SpreadWeight * 1000, 1 >>
    ELSE << SpreadWeight * spread[1], 2 * spread[2] >>

\* (100 - abs(hash(pair) % 30)) / 100 * 30; Python's % by 30 is never negative.
JitterTerm(pair, world) ==
    ((100 - (world.conf[pair] % JitterRange)) * JitterWeight * 1000) \div 100

\* confidence = min(liquidity term + spread term + jitter term, 100).  When
\* the two integer terms reach the cap and the spread term is not negative,
\* the sum is not below the cap and min gives the cap; the sum is formed only
\* in the other case, where it fits the integers of the model.
Confidence(pair, buy_quote, sell_quote, world) ==
    LET whole == LiquidityTerm(buy_quote, sell_quote) + JitterTerm(pair, world)
        part  == SpreadTerm(SpreadOf(buy_quote, sell_quote))
        cap   == ConfidenceCap * 1000
    IN  IF whole >= cap /\ part[1] >= 0 THEN << cap, 1 >>
        ELSE IF whole * part[2] + part[1] >= cap * part[2] THEN << cap, 1 >>
        ELSE << whole * part[2] + part[1], part[2] >>

\* The opportunity dict.
Opportunity(pair, buy_quote, sell_quote, world, t) ==
    [id |-> <<pair, buy_quote.dex, sell_quote.dex, t>>,
     pair |-> pair,
     buyDex |-> buy_quote.dex, sellDex |-> sell_quote.dex,
     buyPrice |-> buy_quote.price, sellPrice |-> sell_quote.price,
     spread |-> SpreadOf(buy_quote, sell_quote),
     estimatedProfit |-> EstimatedProfit(buy_quote, sell_quote),
     estimatedGas |-> EstimatedGas(buy_quote, sell_quote, world),
     netProfit |-> NetProfit(buy_quote, sell_quote, world),
     confidence |-> Confidence(pair, buy_quote, sell_quote, world),
     timestamp |-> t,
     dataSource |-> IF buy_quote.source = sell_quote.source
                    THEN <<buy_quote.source>>
                    ELSE <<buy_quote.source, sell_quote.source>>,
     buyLiquidity |-> buy_quote.liquidity,
     sellLiquidity |-> sell_quote.liquidity]

RECURSIVE DetectFrom(_, _, _, _, _, _)
\* for i, buy_quote in enumerate(quotes): for j, sell_quote in
\* enumerate(quotes): if i != j: ..., from position (i, j) on.
DetectFrom(pair, quotes, world, t, i, j) ==
    IF i > Len(quotes) THEN <<>>
    ELSE IF j > Len(quotes) THEN DetectFrom(pair, quotes, world, t, i + 1, 1)
    ELSE (IF i # j /\ Emits(quotes[i], quotes[j], world)
          THEN << Opportunity(pair, quotes[i], quotes[j], world, t) >>
          ELSE <<>>)
         \o DetectFrom(pair, quotes, world, t, i, j + 1)

\* The opportunities of one pair's quotes.
Detect(pair, quotes, world, t) == DetectFrom(pair, quotes, world, t, 1, 1)

\* The age of the quotes ignored.
SkippedIfMissing(entry, t) == ~entry.present

\* quotes_key not in jupiter_quotes or time.time() - timestamp > 5
Skipped(entry, t) == ~entry.present \/ t - entry.timestamp > StaleAfter

RECURSIVE DetectAll(_, _, _, _)
\* for pair in TRADING_PAIRS.keys(): the candidates, from pair number k on.
DetectAll(cache, world, t, k) ==
    IF k > Len(TRADING_PAIRS) THEN <<>>
    ELSE LET pair == TRADING_PAIRS[k]
         IN  (IF Skipped(cache[pair], t) THEN <<>>
              ELSE Detect(pair, cache[pair].data, world, t))
             \o DetectAll(cache, world, t, k + 1)

RECURSIVE InsertDesc(_, _)
\* x put into a list sorted by netProfit, largest first, behind every entry
\* that is not smaller: list.sort(reverse=True) is stable.
InsertDesc(sorted, x) ==
    IF sorted = <<>> THEN <<x>>
    ELSE IF RatLess(Head(sorted).netProfit, x.netProfit)
         THEN <<x>> \o sorted
         ELSE <<Head(sorted)>> \o InsertDesc(Tail(sorted), x)

RECURSIVE SortedDesc(_, _)
\* opportunities.sort(key=lambda x: x['netProfit'], reverse=True)
SortedDesc(opportunities, n) ==
    IF n = 0 THEN <<>>
    ELSE InsertDesc(SortedDesc(opportunities, n - 1), opportunities[n])

\* The slice forgotten: every candidate is kept.
KeepAll(opportunities) == opportunities

\* opportunities[:10]
KeepTop(opportunities) ==
    SubSeq(opportunities, 1,
           IF Len(opportunities) < TopN THEN Len(opportunities) ELSE TopN)

\* The list generate_arbitrage_opportunities binds current_opportunities to.
RankedTop(opportunities) ==
    KeepTop(SortedDesc(opportunities, Len(opportunities)))

(***************************************************************************)
(* History store                                                           *)
(***************************************************************************)
HistoryCap == 50

\* The spread appended to every pair's series.
AppendedAll(history, pair, spread) ==
    [p \in DOMAIN history |-> Append(history[p], spread)]

\* price_history[pair].append(spread), the list created when missing.
Appended(history, pair, spread) ==
    [history EXCEPT ![pair] = Append(@, spread)]

\* len(price_history[pair]) > 50
OverCap(series) == Len(series) > HistoryCap

\* The slice taken from the wrong end: the oldest 50 kept.
FirstCap(series) ==
    IF Len(series) <= HistoryCap THEN series ELSE SubSeq(series, 1, HistoryCap)

\* price_history[pair][-50:]
LastCap(series) ==
    IF Len(series) <= HistoryCap THEN series
    ELSE SubSeq(series, Len(series) - HistoryCap + 1, Len(series))

(***************************************************************************)
(* Published state, the polling loop and the query handlers                *)
(***************************************************************************)
SleepInterval == 10

NoEntry == [present |-> FALSE, data |-> <<>>, timestamp |-> 0, cycle |-> 0]

\* No call of fetch_all_dex_quotes in this cycle yet.
NoFetch ==
    [pair |-> "none", payload |-> <<>>, primary |-> FetchIdle,
     secondary |-> FetchIdle, raised |-> FALSE, quotes |-> <<>>]

\* What a call of fetch_all_dex_quotes got and did: Jupiter's payload, the
\* two client calls (FetchIdle: not called), and what it returned.
LastFetch(pair, inp, r) ==
    [pair |-> pair, payload |-> inp.payload, primary |-> r.jup,
     secondary |-> r.cg, raised |-> r.raised, quotes |-> r.quotes]

CycleStart(history) ==
    [raisedAt |-> 0, fetched |-> {}, detected |-> FALSE,
     survivors |-> [p \in Pairs |-> 0], appends |-> [p \in Pairs |-> 0],
     histStart |-> history, last |-> NoFetch]

\* Nothing sent and nothing produced yet.
NoPollLog == [sent |-> [api \in Sources |-> <<>>], produced |-> <<>>]

\* The log after a call of fetch_all_dex_quotes: the times the requests of
\* its two client calls were sent, and the time a quote set that is not
\* empty was stored.
Logged(log, r) ==
    [sent |-> [api \in Sources |->
                  log.sent[api] \o (IF api = "jupiter" THEN r.jup.sentAt
                                    ELSE r.cg.sentAt)],
     produced |-> IF ~r.raised /\ r.quotes # <<>>
                  THEN Append(log.produced, r.t) ELSE log.produced]

\* The module-level globals, and the loop about to start its first cycle.
PollInit ==
    /\ hashes \in HashWorlds
    /\ jupiter_quotes = [p \in Pairs |-> NoEntry]
    /\ current_opportunities = <<>>
    /\ price_history = [p \in Pairs |-> <<>>]
    /\ sched = [pc |-> "fetch", cycle |-> 1, i |-> 1, h |-> 0]
    /\ cyc = CycleStart([p \in Pairs |-> <<>>])
    /\ complete = << <<>> >>
    /\ appendLog = [p \in Pairs |-> <<>>]
    /\ pollLog = NoPollLog

\* No response yet.
NoResponse ==
    [handler |-> "none", pair |-> "none", id |-> <<>>, status |-> 0,
     history |-> <<>>, delay |-> 0, body |-> <<>>]

\* No route plan classified yet.
NoRoute == [called |-> FALSE, route_plan |-> <<>>, dex |-> "none"]

ReaderInit ==
    /\ reader = [pc |-> "idle", opps |-> <<>>]
    /\ response = NoResponse
    /\ classified = NoRoute

\* How many entries of a list are of a pair.
CountOf(opps, pair) == Cardinality({k \in DOMAIN opps : opps[k].pair = pair})

\* quotes = await fetch_all_dex_quotes(pair); jupiter_quotes[...] = {...}
\* for the pair the loop stands at; an exception leaves the try block.
FetchPair(inp) ==
    /\ sched.pc = "fetch"
    /\ LET pair == TRADING_PAIRS[sched.i]
           r == fetch_all_dex_quotes(
                    inp, [times |-> api_call_times, adm |-> admitted, t |-> now],
                    hashes)
       IN  /\ api_call_times' = r.times
           /\ admitted' = r.adm
           /\ now' = r.t
           /\ pollLog' = Logged(pollLog, r)
           /\ IF r.raised
              THEN /\ sched' = [sched EXCEPT !.pc = "sleep"]
                   /\ cyc' = [cyc EXCEPT !.raisedAt = sched.i,
                                 !.last = LastFetch(pair, inp, r)]
                   /\ UNCHANGED jupiter_quotes
              ELSE /\ jupiter_quotes' = [jupiter_quotes EXCEPT ![pair] =
                          [present |-> TRUE, data |-> r.quotes,
                           timestamp |-> r.t, cycle |-> sched.cycle]]
                   /\ cyc' = [cyc EXCEPT !.fetched = @ \cup {pair},
                                 !.last = LastFetch(pair, inp, r)]
                   /\ sched' = IF sched.i < Len(TRADING_PAIRS)
                               THEN [sched EXCEPT !.i = @ + 1]
                               ELSE [sched EXCEPT !.pc = "generate"]
    /\ UNCHANGED <<rlLast, rlSteps, fetch, hashes, current_opportunities,
                   price_history, complete, appendLog, reader, response, classified>>

\* The loop left after its first entry: one append per cycle.
AfterFirstEntry(s, opps) == [s EXCEPT !.pc = "sleep"]

\* Where the loop goes after the history entry of opportunity h.
AfterEntry(s, opps) ==
    IF s.h < Len(opps) THEN [s EXCEPT !.pc = "history", !.h = @ + 1]
    ELSE [s EXCEPT !.pc = "sleep"]

\* The global used as the list under construction: it is bound to the
\* candidates first, and sorted and cut in a second step.
GenerateInPlace ==
    /\ sched.pc = "generate"
    /\ IF ~cyc.detected
       THEN LET opportunities == DetectAll(jupiter_quotes, hashes, now, 1)
            IN  /\ current_opportunities' = opportunities
                /\ complete' = Append(complete, RankedTop(opportunities))
                /\ cyc' = [cyc EXCEPT !.detected = TRUE,
                              !.survivors =
                                  [p \in Pairs |-> CountOf(opportunities, p)]]
                /\ UNCHANGED sched
       ELSE /\ current_opportunities' = RankedTop(current_opportunities)
            /\ sched' = AfterEntry([sched EXCEPT !.h = 0],
                                   RankedTop(current_opportunities))
            /\ UNCHANGED <<complete, cyc>>
    /\ UNCHANGED <<now, rlVars, fetch, hashes, jupiter_quotes, price_history,
                   appendLog, pollLog, reader, response, classified>>

\* generate_arbitrage_opportunities up to the assignment of
\* current_opportunities: the candidates are built and sorted in a local
\* list, and one assignment binds the global to the ten best.
Generate ==
    /\ sched.pc = "generate"
    /\ LET opportunities == DetectAll(jupiter_quotes, hashes, now, 1)
       IN  /\ current_opportunities' = RankedTop(opportunities)
           /\ complete' = Append(complete, RankedTop(opportunities))
           /\ cyc' = [cyc EXCEPT !.detected = TRUE,
                         !.survivors = [p \in Pairs |-> CountOf(opportunities, p)]]
           /\ sched' = AfterEntry([sched EXCEPT !.h = 0],
                                  RankedTop(opportunities))
    /\ UNCHANGED <<now, rlVars, fetch, hashes, jupiter_quotes, price_history,
                   appendLog, pollLog, reader, response, classified>>

\* price_history[opp['pair']].append(opp['spread']) for opportunity h.
HistoryAppend ==
    /\ sched.pc = "history"
    /\ LET opp == current_opportunities[sched.h]
       IN  /\ price_history' = Appended(price_history, opp.pair, opp.spread)
           /\ appendLog' = [appendLog EXCEPT ![opp.pair] = Append(@, opp.spread)]
           /\ cyc' = [cyc EXCEPT !.appends[opp.pair] = @ + 1]
           /\ sched' = IF OverCap(price_history'[opp.pair])
                       THEN [sched EXCEPT !.pc = "trim"]
                       ELSE AfterEntry(sched, current_opportunities)
    /\ UNCHANGED <<now, rlVars, fetch, hashes, jupiter_quotes,
                   current_opportunities, complete, pollLog, reader, response,
                   classified>>

\* price_history[opp['pair']] = price_history[opp['pair']][-50:]
HistoryTrim ==
    /\ sched.pc = "trim"
    /\ LET opp == current_opportunities[sched.h]
       IN  price_history' = [price_history EXCEPT ![opp.pair] = LastCap(@)]
    /\ sched' = AfterEntry(sched, current_opportunities)
    /\ UNCHANGED <<now, rlVars, fetch, hashes, jupiter_quotes,
                   current_opportunities, cyc, complete, appendLog, pollLog,
                   reader, response, classified>>

\* await asyncio.sleep(10), and the next turn of while True.
Sleep ==
    /\ sched.pc = "sleep"
    /\ now' = now + SleepInterval
    /\ sched' = [pc |-> "fetch", cycle |-> sched.cycle + 1, i |-> 1, h |-> 0]
    /\ cyc' = CycleStart(price_history)
    /\ UNCHANGED <<rlVars, fetch, hashes, jupiter_quotes, current_opportunities,
                   price_history, complete, appendLog, pollLog, reader, response, classified>>

\* get_arbitrage_opportunities / simulate_trade: the handler reads the
\* global current_opportunities, and works on the list it got.
LoadOpportunities ==
    /\ reader.pc = "idle"
    /\ reader' = [pc |-> "holding", opps |-> current_opportunities]
    /\ UNCHANGED <<now, rlVars, fetch, pollVars, response, classified>>

\* The handler filters the list it holds and returns.
RespondOpportunities ==
    /\ reader.pc = "holding"
    /\ reader' = [pc |-> "idle", opps |-> <<>>]
    /\ UNCHANGED <<now, rlVars, fetch, pollVars, response, classified>>

(***************************************************************************)
(* The trade simulation handler                                            *)
(***************************************************************************)
LatencyBase == 100
LatencyRange == 500

RECURSIVE FindOpportunity(_, _)
\* next((opp for opp in current_opportunities if opp['id'] == id), None):
\* the position of the first entry with the id, 0 for None.
FindOpportunity(opps, opportunity_id) ==
    IF opps = <<>> THEN 0
    ELSE IF Head(opps).id = opportunity_id THEN 1
    ELSE LET rest == FindOpportunity(Tail(opps), opportunity_id)
         IN  IF rest = 0 THEN 0 ELSE rest + 1

\* execution_latency = 100 + (hash(opportunity_id) % 500), milliseconds
ExecutionLatency(world) == LatencyBase + (world.lat % LatencyRange)

\* The handler sleeping before it looks the opportunity up.
NotFoundAfterDelay(opportunity_id, world) ==
    [NoResponse EXCEPT !.handler = "simulate_trade", !.id = opportunity_id,
        !.status = 404, !.delay = ExecutionLatency(world)]

\* return jsonify({'error': 'Opportunity not found'}), 404
NotFound(opportunity_id, world) ==
    [NoResponse EXCEPT !.handler = "simulate_trade", !.id = opportunity_id,
        !.status = 404]

\* POST /api/simulate/trade: the opportunity looked up in the published
\* list, time.sleep(execution_latency / 1000), and the simulated result.
simulate_trade(opportunity_id) ==
    /\ response' =
           IF FindOpportunity(current_opportunities, opportunity_id) = 0
           THEN NotFound(opportunity_id, hashes)
           ELSE [NoResponse EXCEPT !.handler = "simulate_trade",
                    !.id = opportunity_id, !.status = 200,
                    !.delay = ExecutionLatency(hashes)]
    /\ UNCHANGED <<now, rlVars, fetch, pollVars, reader, classified>>

(***************************************************************************)
(* The price-history handlers                                              *)
(***************************************************************************)
DisplayPoints == 20
WalkRange == 200
WalkDen == 10000

\* The series a handler gets: price_history.get(pair, []).
StoredHistory(history, pair) ==
    IF pair \in DOMAIN history THEN history[pair] ELSE <<>>

\* A data point of a response.  A stored spread has no steps; a synthetic
\* point is anchor * (1 + steps[1] / 10000) * ... * (1 + steps[n] / 10000).
StoredPoint(value) == [synthetic |-> FALSE, anchor |-> value, steps |-> <<>>]

\* The walk anchored to the first value of the series.
WalkAnchorOldest(history) ==
    IF history # <<>> THEN history[1] ELSE <<1000, 1>>

\* base_price = history[-1] if history else 1.0
WalkAnchor(history) ==
    IF history # <<>> THEN history[Len(history)] ELSE <<1000, 1>>

\* variation = (hash(f"{formatted_pair}{i}") % 200 - 100) / 10000
Variation(world, i) == (world.walk[i] % WalkRange) - (WalkRange \div 2)

\* for i in range(20 - len(history)): new_price = base_price * (1 + variation);
\* synthetic_history.append(new_price); base_price = new_price
SyntheticHistory(history, world) ==
    [n \in 1..(DisplayPoints - Len(history)) |->
        [synthetic |-> TRUE, anchor |-> WalkAnchor(history),
         steps |-> [k \in 1..n |-> Variation(world, k - 1)]]]

\* The slice taken from the front.
FirstPoints(points) ==
    IF Len(points) <= DisplayPoints THEN points
    ELSE SubSeq(points, 1, DisplayPoints)

\* history[-20:]
LastPoints(points) ==
    IF Len(points) <= DisplayPoints THEN points
    ELSE SubSeq(points, Len(points) - DisplayPoints + 1, Len(points))

\* The 'history' of get_price_history's response.
BackfilledHistory(history, world) ==
    LET stored == [k \in DOMAIN history |-> StoredPoint(history[k])]
    IN  LastPoints(IF Len(history) < DisplayPoints
                   THEN SyntheticHistory(history, world) \o stored
                   ELSE stored)

\* The synthetic points put in front of the stored list itself (each at its
\* anchor), as history[:0] = synthetic_history would.
BackfilledInPlace(history, world) ==
    IF Len(history) < DisplayPoints
    THEN [n \in 1..(DisplayPoints - Len(history)) |-> WalkAnchor(history)]
             \o history
    ELSE history

\* The stored list after the handler: history = synthetic_history + history
\* binds the handler's name to a new list, and history[-20:] is a copy.
AfterBackfill(history, world) == history

\* GET /api/price-history/<pair>
get_price_history(pair) ==
    /\ response' =
           [NoResponse EXCEPT !.handler = "get_price_history", !.pair = pair,
               !.status = 200,
               !.history = BackfilledHistory(StoredHistory(price_history, pair),
                                             hashes)]
    /\ price_history' =
           [p \in DOMAIN price_history |->
               IF p = pair THEN AfterBackfill(price_history[p], hashes)
               ELSE price_history[p]]
    /\ UNCHANGED <<now, rlVars, fetch, hashes, jupiter_quotes,
                   current_opportunities, sched, cyc, complete, appendLog, pollLog,
                   reader, classified>>

\* GET /api/price-history?pair=<pair>: the stored series as it is.
get_price_history_all(pair) ==
    /\ response' =
           [NoResponse EXCEPT !.handler = "get_price_history_all",
               !.pair = pair, !.status = 200,
               !.history = [k \in DOMAIN StoredHistory(price_history, pair) |->
                               StoredPoint(StoredHistory(price_history, pair)[k])]]
    /\ UNCHANGED <<now, rlVars, fetch, pollVars, reader, classified>>

(***************************************************************************)
(* The other query handlers                                                *)
(***************************************************************************)
\* GET /api/quotes?pair=<pair>: the cached quote set of the pair, [] when
\* the cache has no entry for it.
get_quotes(pair) ==
    /\ response' =
           [NoResponse EXCEPT !.handler = "get_quotes", !.pair = pair,
               !.status = 200,
               !.body = IF pair \in DOMAIN jupiter_quotes
                           /\ jupiter_quotes[pair].present
                        THEN jupiter_quotes[pair].data ELSE <<>>]
    /\ UNCHANGED <<now, rlVars, fetch, pollVars, reader, classified>>

\* opp['netProfit'] >= min_pnl and (not pair_filter or pair_filter == 'All'
\* or opp['pair'] == pair_filter); "" is the parameter left out.
PassesFilter(opp, min_pnl, pair_filter) ==
    /\ ~RatLess(opp.netProfit, min_pnl)
    /\ (pair_filter = "" \/ pair_filter = "All" \/ opp.pair = pair_filter)

\* GET /api/arbitrage/opportunities: the entries of the published list that
\* pass the filter, in a list of the handler's own.
get_arbitrage_opportunities(min_pnl, pair_filter) ==
    /\ response' =
           [NoResponse EXCEPT !.handler = "get_arbitrage_opportunities",
               !.pair = pair_filter, !.status = 200,
               !.body = SelectSeq(current_opportunities,
                            LAMBDA opp : PassesFilter(opp, min_pnl, pair_filter))]
    /\ UNCHANGED <<now, rlVars, fetch, pollVars, reader, classified>>

\* 'active' if the test request came back with status 200 else 'error'
SourceStatus(working) == IF working THEN "active" ELSE "error"

\* GET /health: one requests.get to each source, sent without
\* rate_limit_check, and the sizes of the published list and of the cache.
health_check(jupiter_working, coingecko_working) ==
    /\ response' =
           [NoResponse EXCEPT !.handler = "health_check", !.status = 200,
               !.body =
                   [opportunities_count |-> Len(current_opportunities),
                    pairs_tracking |->
                        Cardinality({p \in DOMAIN jupiter_quotes :
                                        jupiter_quotes[p].present}),
                    jupiter |-> SourceStatus(jupiter_working),
                    coingecko |-> SourceStatus(coingecko_working)]]
    /\ UNCHANGED <<now, rlVars, fetch, pollVars, reader, classified>>

(***************************************************************************)
(* What the outside world answers during one fetch_all_dex_quotes          *)
(***************************************************************************)
Always(resp) == [k \in 1..(DefaultMaxRetries + 1) |-> resp]

Payload(routePlan, inAmount, outAmount, slippageBps, malformed) ==
    [routePlan |-> routePlan, inAmount |-> inAmount, outAmount |-> outAmount,
     slippageBps |-> slippageBps, malformed |-> malformed]

\* A well-formed answer to the request for 1000000 units at 50 bps: a price
\* of 1000 ticks.
Priced(routePlan) == Payload(routePlan, 1000000, 1000000000, 50, FALSE)

UsdPrices(base, quote) == [base |-> base, quote |-> quote]

\* (hash(dex + pair + second) % 100 - 50) per venue.
Spread3(r, o, l) ==
    [d \in {"Raydium", "Orca", "Lifinity"} |->
        CASE d = "Raydium" -> r [] d = "Orca" -> o [] OTHER -> l]

VWide == Spread3(-50, 0, 40)
VSkew == Spread3(-50, -20, 40)
VNarrow == Spread3(-40, 0, 30)

PollInput(jup, payload, cg, prices, variance, jitter) ==
    [jup |-> jup, payload |-> payload, cg |-> cg, prices |-> prices,
     variance |-> variance, jitter |-> jitter, latency |-> 0]

\* The same answers, the last one arriving seconds after its request.
Late(inp, seconds) == [inp EXCEPT !.latency = seconds]

\* Jupiter answers, with a response that has no route plan.
Unrouted(variance) ==
    PollInput(Always("ok"), Priced(<<>>), Always("ok"), UsdPrices(1000, 1),
              variance, 0)

\* Jupiter answers with a two-step route through programs not in the table.
Routed(variance) ==
    PollInput(Always("ok"),
              Priced(<< RouteStep(TRUE, "other"), RouteStep(FALSE, "other") >>),
              Always("ok"), UsdPrices(1000, 1), variance, 0)

\* Jupiter answers 200 with a payload whose inAmount is not a number.
Malformed ==
    PollInput(Always("ok"), Payload(<<>>, 0, 0, 50, TRUE), Always("ok"),
              UsdPrices(1000, 1), VWide, 0)

\* Jupiter answers 500, CoinGecko answers.
Backup(variance) ==
    PollInput(Always("error_status"), Priced(<<>>), Always("ok"),
              UsdPrices(1000, 1), variance, 0)

\* Both sources answer 429 to every request.
Throttled ==
    PollInput(Always("throttled"), Priced(<<>>), Always("throttled"),
              UsdPrices(1000, 1), VWide, 1)

\* Jupiter times out; CoinGecko answers without a price for the base token.
Unpriced ==
    PollInput(Always("exception"), Priced(<<>>), Always("ok"),
              UsdPrices(0, 1), VWide, 0)

\* Jupiter answers 200 with no outAmount; CoinGecko answers.
NonPositive(variance) ==
    PollInput(Always("ok"), Payload(<<>>, 1000000, 0, 50, FALSE), Always("ok"),
              UsdPrices(1000, 1), variance, 0)

\* Jupiter raises on every request; CoinGecko answers 500.
BothDown ==
    PollInput(Always("exception"), Priced(<<>>), Always("error_status"),
              UsdPrices(1000, 1), VWide, 0)

\* Jupiter answers 429 to the first n requests and 200 from then on.
SlowJupiter(n, variance) ==
    PollInput([k \in 1..(DefaultMaxRetries + 1) |->
                  IF k <= n THEN "throttled" ELSE "ok"],
              Priced(<<>>), Always("ok"), UsdPrices(1000, 1), variance, 0)

\* The answers drawn for each pair of the loop.
PollInputs(pair) ==
    CASE pair = "SOL/USDC"  -> {Unrouted(VWide), Malformed}
      [] pair = "RAY/USDC"  -> {Unrouted(VSkew), Backup(VNarrow)}
      [] pair = "ORCA/USDC" -> {Unrouted(VWide), Throttled}
      [] pair = "BONK/USDC" -> {Unrouted(VSkew), Routed(VWide)}
      [] OTHER              -> {Unrouted(VWide), Unpriced}

(***************************************************************************)
(* The polling loop with a query handler beside it                         *)
(***************************************************************************)
\* A spread the detector has emitted before: 4 ticks over a price of 1000.
PastSpread == << 4 * MilliPerUnit, 1000 >>

\* The process just started.
FreshStart == RateLimiterInit /\ PollInit

\* The process has polled for a long time: every series holds 49 spreads;
\* in the last cycle, 10 seconds ago, each source answered one request per
\* pair with an error status, so every quote set is empty and no
\* opportunity is published.  Time is counted from that cycle.
WarmStart ==
    /\ now = SleepInterval
    /\ api_call_times = [api \in Sources |-> [k \in 1..Len(TRADING_PAIRS) |-> 0]]
    /\ admitted = api_call_times
    /\ rlLast = NoCall
    /\ rlSteps = [ticks |-> 0, calls |-> [api \in Sources |-> 0]]
    /\ hashes \in HashWorlds
    /\ jupiter_quotes = [p \in Pairs |->
           [present |-> TRUE, data |-> <<>>, timestamp |-> 0, cycle |-> 0]]
    /\ current_opportunities = <<>>
    /\ price_history = [p \in Pairs |-> [k \in 1..(HistoryCap - 1) |-> PastSpread]]
    /\ sched = [pc |-> "fetch", cycle |-> 1, i |-> 1, h |-> 0]
    /\ cyc = CycleStart(price_history)
    /\ complete = << <<>> >>
    /\ appendLog = price_history
    /\ pollLog = [NoPollLog EXCEPT !.sent = api_call_times]

InitSched ==
    /\ FreshStart \/ WarmStart
    /\ fetch = FetchIdle /\ ReaderInit

NextSched ==
    \/ /\ sched.cycle <= MaxCycles
       /\ \E inp \in PollInputs(TRADING_PAIRS[sched.i]) : FetchPair(inp)
    \/ Generate
    \/ HistoryAppend
    \/ HistoryTrim
    \/ Sleep
    \/ LoadOpportunities
    \/ RespondOpportunities

SpecSched == InitSched /\ [][NextSched]_vars

(***************************************************************************)
(* The rate limiter alone: calls on one source at non-decreasing times     *)
(***************************************************************************)
TickSteps == {1, 59}

\* time.time() moves on between two calls.
Tick(d) ==
    /\ rlSteps.ticks < MaxTicks
    /\ now' = now + d
    /\ rlSteps' = [rlSteps EXCEPT !.ticks = @ + 1]
    /\ UNCHANGED <<api_call_times, admitted, rlLast, fetch, pollVars, reader, response, classified>>

\* A caller acquires on the one source this behaviour exercises.
TryAcquire(api) ==
    /\ \A other \in Sources \ {api} : rlSteps.calls[other] = 0
    /\ rlSteps.calls[api] < MaxCalls
    /\ rate_limit_check(api)
    /\ UNCHANGED <<fetch, pollVars, reader, response, classified>>

InitRL == RateLimiterInit /\ fetch = FetchIdle /\ PollInit /\ ReaderInit

NextRL ==
    \/ \E d \in TickSteps : Tick(d)
    \/ \E api \in Sources : TryAcquire(api)

SpecRL == InitRL /\ [][NextRL]_vars

\* The admitted calls of api whose timestamp lies in [w, w + 60).
AdmittedInWindow(api, w) ==
    {i \in DOMAIN admitted[api] :
        w <= admitted[api][i] /\ admitted[api][i] < w + RateWindow}

\* C1: on one source, at non-decreasing times, the admitted calls with a
\* timestamp in any window of 60 time units never exceed the source's budget
\* (10 primary, 15 secondary), and a denied call records no timestamp: it
\* leaves only the pruned list, every entry of which was there before.
C1_WindowBudget ==
    /\ \A api \in Sources : \A w \in 0..now :
           Cardinality(AdmittedInWindow(api, w)) <= MAX_CALLS_PER_MINUTE[api]
    /\ (rlLast.api # "none" /\ ~rlLast.ok) =>
           /\ Len(api_call_times[rlLast.api]) <= Len(rlLast.before)
           /\ \A i \in DOMAIN api_call_times[rlLast.api] :
                  api_call_times[rlLast.api][i] = 
                      rlLast.before[i + Len(rlLast.before)
                                      - Len(api_call_times[rlLast.api])]
           /\ Len(api_call_times[rlLast.api]) = MAX_CALLS_PER_MINUTE[rlLast.api]

\* A source whose budget was spent denied a call, and admitted one again once
\* the window had moved past the old calls.
C1_Witness ==
    \E api \in Sources :
        /\ rlLast.api = api /\ rlLast.ok
        /\ Len(admitted[api]) > MAX_CALLS_PER_MINUTE[api]
        /\ rlSteps.calls[api] > Len(admitted[api])

(***************************************************************************)
(* One source client at a time                                             *)
(***************************************************************************)
\* The calendar an earlier minute of polling can have left: k calls admitted
\* at time 0, for k = 0, budget - 1 and budget.
EarlierCalls(api, k) == [i \in 1..k |-> 0]

InitFetch ==
    /\ now = 0
    /\ \E api \in Sources :
       \E k \in {0, MAX_CALLS_PER_MINUTE[api] - 1, MAX_CALLS_PER_MINUTE[api]} :
           /\ api_call_times = [a \in Sources |->
                  IF a = api THEN EarlierCalls(api, k) ELSE <<>>]
           /\ admitted = api_call_times
    /\ rlLast = NoCall
    /\ rlSteps = [ticks |-> 0, calls |-> [api \in Sources |-> 0]]
    /\ fetch = FetchIdle
    /\ PollInit /\ ReaderInit

\* A caller enters get_<api>_..._with_retry.
FetchCall(api, max_retries) ==
    /\ fetch.pc \in {"idle", "done"}
    /\ fetch.calls < MaxFetches
    /\ fetch' = FetchEntered(fetch, api, max_retries)
    /\ UNCHANGED <<now, rlVars, pollVars, reader, response, classified>>

\* The running call goes once round its loop.
FetchStep(resp, j) ==
    /\ fetch.pc = "running"
    /\ LET c == FetchIteration([f |-> fetch, times |-> api_call_times,
                                adm |-> admitted, t |-> now], resp, j)
       IN  /\ fetch' = c.f
           /\ api_call_times' = c.times
           /\ admitted' = c.adm
           /\ now' = c.t
    /\ UNCHANGED <<rlLast, rlSteps, pollVars, reader, response, classified>>

NextFetch ==
    \/ \E api \in Sources : \E mr \in 0..MaxRetriesTried : FetchCall(api, mr)
    \/ \E resp \in Responses : \E j \in Jitters : FetchStep(resp, j)

StepsOfFetch == \E resp \in Responses : \E j \in Jitters : FetchStep(resp, j)

SpecFetch == InitFetch /\ [][NextFetch]_vars /\ WF_vars(StepsOfFetch)

RECURSIVE SumPow2(_)
\* 2^0 + ... + 2^(n-1)
SumPow2(n) == IF n = 0 THEN 0 ELSE SumPow2(n - 1) + 2 ^ (n - 1)

FetchWithinBounds ==
    /\ fetch.requests <= fetch.max_retries + 1
    /\ fetch.iterations <= fetch.max_retries + 1
    /\ fetch.sleeps <= fetch.max_retries
    /\ fetch.sleeps <= fetch.requests
    /\ fetch.pc = "done" => fetch.sleeps < fetch.iterations
    /\ fetch.waited <= SumPow2(fetch.max_retries) * JitterDen
                         + fetch.sleeps * (JitterDen - 1)
    /\ fetch.pc = "done" => fetch.result # "none"

\* C2: whatever the upstream answers, one call sends at most max_retries + 1
\* requests, sleeps only between two iterations of its loop, waits in total
\* at most 2^0 + ... + 2^(max_retries - 1) plus one jitter below 1 per sleep,
\* and ends with a result.
C2_FetchBounded ==
    /\ []FetchWithinBounds
    /\ (fetch.pc = "running") ~> (fetch.pc = "done")

\* A call with the default max_retries that was throttled on every attempt:
\* three requests, two sleeps, the longest wait.
C2_Witness ==
    /\ fetch.pc = "done" /\ fetch.max_retries = DefaultMaxRetries
    /\ fetch.result = "throttled"
    /\ fetch.requests = DefaultMaxRetries + 1
    /\ fetch.sleeps = DefaultMaxRetries
    /\ fetch.waited = SumPow2(DefaultMaxRetries) * JitterDen
                        + DefaultMaxRetries * (JitterDen - 1)

(***************************************************************************)
(* Claims about the polling loop                                           *)
(***************************************************************************)
\* A list no longer than ten, largest netProfit first.
IsRanked(opps) ==
    /\ Len(opps) <= TopN
    /\ \A k \in 1..(Len(opps) - 1) :
           opps[k].netProfit[1] * opps[k + 1].netProfit[2]
               >= opps[k + 1].netProfit[1] * opps[k].netProfit[2]

\* C3: in every state the published list has at most 10 entries, is sorted
\* by netProfit largest first, and each entry has netProfit > 0 and
\* spread > 0.1 percent, however many candidates the pairs yield.
C3_PublishedRanked ==
    /\ IsRanked(current_opportunities)
    /\ \A k \in DOMAIN current_opportunities :
           LET opp == current_opportunities[k]
           IN  /\ opp.netProfit[1] > 0 /\ opp.netProfit[2] > 0
               /\ opp.spread[1] > MinSpreadMilli * opp.spread[2]
               /\ opp.spread[2] > 0

\* A detection that had more than ten candidates, of differing profit.
C3_Witness ==
    /\ sched.pc = "history"
    /\ cyc.survivors["SOL/USDC"] + cyc.survivors["RAY/USDC"]
         + cyc.survivors["ORCA/USDC"] + cyc.survivors["BONK/USDC"]
         + cyc.survivors["JUP/USDC"] > TopN
    /\ Len(current_opportunities) = TopN
    /\ RatLess(current_opportunities[TopN].netProfit,
               current_opportunities[1].netProfit)

\* C5: a failure in one pair's fetch is isolated: the other pairs are still
\* fetched and the detector still runs in that cycle.
C5_FailureIsolated ==
    (sched.pc = "sleep" /\ cyc.raisedAt # 0) =>
        /\ cyc.fetched = Pairs \ {TRADING_PAIRS[cyc.raisedAt]}
        /\ cyc.detected

\* C6: the published list is replaced in one step: the global is at all
\* times the complete ranked list of the latest detection, and a handler that
\* read it holds the complete ranked list of some detection (or the empty
\* list of the start), never a list still being built, sorted or cut.
C6_AtomicSnapshot ==
    /\ current_opportunities = complete[Len(complete)]
    /\ reader.pc = "holding" =>
           /\ \E k \in DOMAIN complete : reader.opps = complete[k]
           /\ IsRanked(reader.opps)

\* A handler holds the ten entries of the previous cycle while the loop has
\* published another list.
C6_Witness ==
    /\ reader.pc = "holding"
    /\ Len(reader.opps) = TopN
    /\ sched.cycle = 2 /\ cyc.detected
    /\ current_opportunities # reader.opps
    /\ current_opportunities # <<>>

RECURSIVE SpreadsOf(_, _)
\* The spreads of the entries of a pair, in the order of the list.
SpreadsOf(opps, pair) ==
    IF opps = <<>> THEN <<>>
    ELSE (IF Head(opps).pair = pair THEN <<Head(opps).spread>> ELSE <<>>)
         \o SpreadsOf(Tail(opps), pair)

\* The last n entries of a series.
LastOf(series, n) ==
    IF Len(series) <= n THEN series
    ELSE SubSeq(series, Len(series) - n + 1, Len(series))

\* C7: the quote cache and the history are at all times a complete snapshot
\* of one cycle: all pairs' quote sets are of the same cycle, and every
\* series is either as the cycle found it or as the cycle leaves it.
C7_CompleteSnapshots ==
    /\ \A p, q \in Pairs : jupiter_quotes[p].cycle = jupiter_quotes[q].cycle
    /\ \A p \in Pairs :
           \/ price_history[p] = cyc.histStart[p]
           \/ /\ cyc.detected
              /\ price_history[p] =
                     LastOf(cyc.histStart[p]
                              \o SpreadsOf(current_opportunities, p), HistoryCap)

\* C10 as stated: at the end of a cycle, a pair's series was appended once
\* if the pair had a surviving opportunity, and not at all otherwise.
C10_OncePerPair ==
    sched.pc = "sleep" =>
        \A p \in Pairs :
            cyc.appends[p] = IF cyc.survivors[p] >= 1 THEN 1 ELSE 0

\* C10 amended: a cycle appends to a pair's series once for each of the
\* pair's opportunities in the published list, their spreads in the order of
\* the list, and not at all when the pair has none there (or no detection
\* ran); the series keeps the last 50.
C10_OncePerRetained ==
    /\ \A p \in Pairs :
           cyc.appends[p] <= CountOf(current_opportunities, p)
    /\ ~cyc.detected => \A p \in Pairs : cyc.appends[p] = 0
    /\ sched.pc = "sleep" =>
           \A p \in Pairs :
               /\ cyc.detected =>
                      cyc.appends[p] = CountOf(current_opportunities, p)
               /\ price_history[p] =
                      LastOf(cyc.histStart[p]
                               \o (IF cyc.detected
                                   THEN SpreadsOf(current_opportunities, p)
                                   ELSE <<>>), HistoryCap)

\* A cycle ended having appended twice to one pair's series, and not at all
\* to the series of a pair whose opportunities were all cut from the list.
C10_Witness ==
    /\ sched.pc = "sleep"
    /\ \E p \in Pairs : cyc.appends[p] >= 2
    /\ \E q \in Pairs : cyc.survivors[q] >= 1 /\ cyc.appends[q] = 0

(***************************************************************************)
(* The detector on one pair's quote set                                    *)
(***************************************************************************)
\* Prices in ticks of 0.1: 100.0, 100.1, 100.4 and 101.0.
DetectPrices == {1000, 1001, 1004, 1010}

\* Slippages in basis points: 0, 0.001, 0.0019 and 0.002.
DetectSlippages == {0, 10, 19, 20}

\* The quote sets handed to the detector: one quote per venue, two or three
\* venues, in the order the quote loops go through them.
DetectQuoteSets ==
    UNION { [1..n -> DetectPrices \X DetectSlippages] : n \in {2, 3} }

QuotesOf(set) ==
    [k \in DOMAIN set |-> Quote(Dexes[k], set[k][1], 300000, set[k][2], "coingecko")]

\* The loop has stored the quote sets of a cycle, SOL/USDC's among them with
\* quotes, the others empty, and is about to call
\* generate_arbitrage_opportunities().
InitDetect ==
    /\ RateLimiterInit /\ fetch = FetchIdle /\ ReaderInit
    /\ hashes \in HashWorlds
    /\ \E set \in DetectQuoteSets :
           jupiter_quotes = [p \in Pairs |->
               [present |-> TRUE,
                data |-> IF p = "SOL/USDC" THEN QuotesOf(set) ELSE <<>>,
                timestamp |-> 0, cycle |-> 1]]
    /\ current_opportunities = <<>>
    /\ price_history = [p \in Pairs |-> <<>>]
    /\ sched = [pc |-> "generate", cycle |-> 1, i |-> Len(TRADING_PAIRS), h |-> 0]
    /\ cyc = [CycleStart(price_history) EXCEPT !.fetched = Pairs]
    /\ complete = << <<>> >>
    /\ appendLog = [p \in Pairs |-> <<>>]
    /\ pollLog = NoPollLog

\* The ids a client asks to simulate: two the detection of this cycle can
\* have published, one of an earlier detection, and none.
TradeIds ==
    { <<"SOL/USDC", "Raydium", "Orca", 0>>, <<"SOL/USDC", "Orca", "Raydium", 0>>,
      <<"SOL/USDC", "Raydium", "Orca", -SleepInterval>>, <<>> }

NextDetect ==
    \/ Generate
    \/ HistoryAppend
    \/ \E opportunity_id \in TradeIds : simulate_trade(opportunity_id)

SpecDetect == InitDetect /\ [][NextDetect]_vars

\* The quote set the detector ran on, and whether it emitted (buy i, sell j).
DetectedQuotes == jupiter_quotes["SOL/USDC"].data

EmittedFor(i, j) ==
    \E k \in DOMAIN current_opportunities :
        /\ current_opportunities[k].pair = "SOL/USDC"
        /\ current_opportunities[k].buyDex = DetectedQuotes[i].dex
        /\ current_opportunities[k].sellDex = DetectedQuotes[j].dex
        /\ current_opportunities[k].buyPrice = DetectedQuotes[i].price
        /\ current_opportunities[k].sellPrice = DetectedQuotes[j].price

\* spread > 0.1 and spread - slippages * 100 - gas > 0, both multiplied by
\* the buy price; gas is 0.01 + (hash % 20) / 1000.
ShouldEmit(i, j) ==
    LET b == DetectedQuotes[i].price
        s == DetectedQuotes[j].price
        slipBps == DetectedQuotes[i].slippage + DetectedQuotes[j].slippage
        gasMilli == 10 + (hashes.gas[<<DetectedQuotes[i].dex,
                                       DetectedQuotes[j].dex>>] % 20)
    IN  /\ (s - b) * 1000 > b
        /\ (s - b) * 100000 - slipBps * 10 * b - gasMilli * b > 0

\* Quotes A at 100 with slippage 0.001 and B at 101 with slippage 0.002.
ExampleQuotes == QuotesOf(<< <<1000, 10>>, <<1010, 20>> >>)

\* C4: the detector emits an opportunity for the ordered pair of distinct
\* positions (buy i, sell j) exactly when the spread is greater than 0.1 and
\* the spread less both slippages (times 100) less the gas estimate is greater
\* than 0; it never emits both (i, j) and (j, i); and for A at 100 (slippage
\* 0.001) and B at 101 (slippage 0.002) it emits exactly one opportunity,
\* buy A / sell B, with spread 1.0 and estimated profit 0.7.
C4_DetectExactly ==
    cyc.detected =>
        LET positions == DOMAIN DetectedQuotes
        IN  /\ \A i, j \in positions :
                   i # j => (EmittedFor(i, j) <=> ShouldEmit(i, j))
            /\ Len(current_opportunities) =
                   Cardinality({ij \in positions \X positions :
                                   ij[1] # ij[2] /\ ShouldEmit(ij[1], ij[2])})
            /\ \A i, j \in positions :
                   i # j => ~(EmittedFor(i, j) /\ EmittedFor(j, i))
            /\ DetectedQuotes = ExampleQuotes =>
                   /\ Len(current_opportunities) = 1
                   /\ current_opportunities[1].buyDex = "Raydium"
                   /\ current_opportunities[1].sellDex = "Orca"
                   /\ RatEq(current_opportunities[1].spread, <<1000, 1>>)
                   /\ RatEq(current_opportunities[1].estimatedProfit, <<700, 1>>)

\* The detector has run on the example and published its one opportunity.
C4_Witness ==
    /\ cyc.detected
    /\ DetectedQuotes = ExampleQuotes
    /\ Len(current_opportunities) = 1
    /\ current_opportunities[1].buyDex = "Raydium"

(***************************************************************************)
(* The history over many cycles                                            *)
(***************************************************************************)
\* What the sources answer in a long run: every request is answered, and the
\* hash-drawn variance changes with the pair and the second.
HistInput(pair, cycle) ==
    IF pair = "SOL/USDC"
    THEN (IF cycle % 2 = 1 THEN Unrouted(VWide) ELSE Unrouted(VSkew))
    ELSE Backup(VNarrow)

InitHist == FreshStart /\ fetch = FetchIdle /\ ReaderInit

NextHist ==
    \/ /\ sched.cycle <= MaxHistCycles
       /\ FetchPair(HistInput(TRADING_PAIRS[sched.i], sched.cycle))
    \/ Generate
    \/ HistoryAppend
    \/ HistoryTrim
    \/ Sleep
    \/ LoadOpportunities
    \/ RespondOpportunities

SpecHist == InitHist /\ [][NextHist]_vars

\* C8: in every state, the states between the loop's steps included, every
\* pair's stored series has at most 50 entries.
C8_HistoryCapped ==
    \A p \in Pairs : Len(price_history[p]) <= HistoryCap

\* C9: after n appends to a pair's series, the stored series is the last
\* min(n, 50) appended values, oldest first; 60 appends leave the 50 most
\* recent.  An append is lines 407-409: the entry added and the series cut.
C9_LastFifty ==
    \A p \in Pairs :
        (sched.pc = "trim" => current_opportunities[sched.h].pair # p) =>
            LET n == Len(appendLog[p])
                kept == IF n < HistoryCap THEN n ELSE HistoryCap
            IN  /\ Len(price_history[p]) = kept
                /\ \A k \in 1..kept :
                       price_history[p][k] = appendLog[p][n - kept + k]

\* Sixty appends to the series of SOL/USDC, of differing values, done.
C9_Witness ==
    /\ sched.pc # "trim"
    /\ Len(appendLog["SOL/USDC"]) = 60
    /\ Len(price_history["SOL/USDC"]) = HistoryCap
    /\ price_history["SOL/USDC"][1] = appendLog["SOL/USDC"][11]
    /\ price_history["SOL/USDC"][1] # appendLog["SOL/USDC"][1]
    /\ price_history["SOL/USDC"][HistoryCap] # appendLog["SOL/USDC"][HistoryCap]

(***************************************************************************)
(* The price-history handlers on a stored series                           *)
(***************************************************************************)
\* The spreads of a series: 0.401 percent, 0.402 percent, ...
SpreadAt(i) == << 400 + i, 1 >>

\* The series SOL/USDC can hold between two cycles: every length up to the
\* cap, the values rising or falling.
StoredSeries ==
    { [i \in 1..k |-> SpreadAt(i)] : k \in 0..HistoryCap }
      \cup { [i \in 1..k |-> SpreadAt(k + 1 - i)] : k \in 0..HistoryCap }

\* The pairs a query names: two configured ones and one that is not.
QueriedPairs == {"SOL/USDC", "RAY/USDC", "ETH/USDC"}

\* The loop is about to start a cycle; in the last one, 10 seconds ago, each
\* source answered one request per pair with an error status.
InitQuery ==
    /\ now = SleepInterval
    /\ api_call_times = [api \in Sources |-> [k \in 1..Len(TRADING_PAIRS) |-> 0]]
    /\ admitted = api_call_times
    /\ rlLast = NoCall
    /\ rlSteps = [ticks |-> 0, calls |-> [api \in Sources |-> 0]]
    /\ fetch = FetchIdle /\ ReaderInit
    /\ hashes \in HashWorlds
    /\ jupiter_quotes = [p \in Pairs |->
           [present |-> TRUE, data |-> <<>>, timestamp |-> 0, cycle |-> 0]]
    /\ current_opportunities = <<>>
    /\ \E series \in StoredSeries :
           price_history = [p \in Pairs |->
               IF p = "SOL/USDC" THEN series ELSE <<>>]
    /\ sched = [pc |-> "fetch", cycle |-> 1, i |-> 1, h |-> 0]
    /\ cyc = CycleStart(price_history)
    /\ complete = << <<>> >>
    /\ appendLog = price_history
    /\ pollLog = [NoPollLog EXCEPT !.sent = api_call_times]

NextQuery ==
    \/ \E pair \in QueriedPairs : get_price_history(pair)
    \/ \E pair \in QueriedPairs : get_price_history_all(pair)

SpecQuery == InitQuery /\ [][NextQuery]_vars

\* The series stored for the pair the last response is about.
AskedSeries ==
    IF response.pair \in Pairs THEN price_history[response.pair] ELSE <<>>

C15_AnchorOldest ==
    (/\ response.handler = "get_price_history"
     /\ Len(AskedSeries) \in 1..19) =>
        \A n \in 1..(20 - Len(AskedSeries)) :
            /\ response.history[n].synthetic
            /\ response.history[n].anchor = AskedSeries[1]

\* C15 amended: for a stored series of 1 to 19 values, the synthetic points
\* are a walk anchored to the newest stored value, the last of the series;
\* point n is the anchor after n steps of the walk.
C15_AnchorNewest ==
    (/\ response.handler = "get_price_history"
     /\ Len(AskedSeries) \in 1..19) =>
        \A n \in 1..(20 - Len(AskedSeries)) :
            /\ response.history[n].synthetic
            /\ response.history[n].anchor = AskedSeries[Len(AskedSeries)]
            /\ response.history[n].steps =
                   [k \in 1..n |-> (hashes.walk[k - 1] % 200) - 100]

\* A response for a series of 12 values whose oldest and newest differ.
C15_Witness ==
    /\ response.handler = "get_price_history"
    /\ Len(AskedSeries) = 12
    /\ AskedSeries[1] # AskedSeries[12]
    /\ response.history[8].synthetic
    /\ response.history[8].anchor = AskedSeries[12]

(***************************************************************************)
(* More claims about the polling loop                                      *)
(***************************************************************************)
\* C12: a pair whose quote set of the cycle has no quotes gets no opportunity
\* from that cycle's detection, and its series stays as the cycle found it.
C12_EmptySetSilent ==
    cyc.detected =>
        \A p \in Pairs :
            (/\ jupiter_quotes[p].present
             /\ jupiter_quotes[p].cycle = sched.cycle
             /\ jupiter_quotes[p].data = <<>>) =>
                /\ cyc.survivors[p] = 0
                /\ CountOf(current_opportunities, p) = 0
                /\ cyc.appends[p] = 0
                /\ price_history[p] = cyc.histStart[p]

\* A cycle ended in which one pair had no quotes and another pair's series
\* grew.
C12_Witness ==
    /\ sched.pc = "sleep" /\ cyc.detected
    /\ \E p \in Pairs :
           /\ jupiter_quotes[p].cycle = sched.cycle
           /\ jupiter_quotes[p].data = <<>>
           /\ price_history[p] = cyc.histStart[p]
    /\ \E q \in Pairs : cyc.appends[q] > 0

(***************************************************************************)
(* Claims about the trade simulation                                       *)
(***************************************************************************)
\* C13: simulate_trade with an id that is not in the published list answers
\* not found, sleeps for no simulated delay, and leaves the published list,
\* the quote cache and the history as they were.
C13_UnknownIdNotFound ==
    [][(/\ response' # response
        /\ response'.handler = "simulate_trade"
        /\ \A k \in DOMAIN current_opportunities :
               current_opportunities[k].id # response'.id) =>
            /\ response'.status = 404
            /\ response'.delay = 0
            /\ UNCHANGED <<now, current_opportunities, jupiter_quotes,
                           price_history>>]_vars

\* Not found was answered for the id of an earlier detection while a list
\* with other ids is published.
C13_Witness ==
    /\ response.handler = "simulate_trade"
    /\ response.status = 404 /\ response.delay = 0
    /\ response.id = <<"SOL/USDC", "Raydium", "Orca", -SleepInterval>>
    /\ current_opportunities # <<>>
    /\ current_opportunities[1].id = <<"SOL/USDC", "Raydium", "Orca", 0>>

(***************************************************************************)
(* The route classifier on a route plan                                    *)
(***************************************************************************)
\* The steps of a route plan: with or without 'swapInfo', the programId
\* holding the id of one of the three venues or of none.
RouteSteps ==
    { RouteStep(si, pid) : si \in BOOLEAN,
                           pid \in {"Raydium", "Orca", "Lifinity", "other"} }

RoutePlans == UNION { [1..n -> RouteSteps] : n \in 0..MaxRouteLen }

InitRoute ==
    RateLimiterInit /\ fetch = FetchIdle /\ PollInit /\ ReaderInit

\* dex = identify_dex_from_route(route_plan)
ClassifyRoute(route_plan) ==
    /\ ~classified.called
    /\ classified' = [called |-> TRUE, route_plan |-> route_plan,
                      dex |-> identify_dex_from_route(route_plan)]
    /\ UNCHANGED <<now, rlVars, fetch, pollVars, reader, response>>

NextRoute == \E route_plan \in RoutePlans : ClassifyRoute(route_plan)

SpecRoute == InitRoute /\ [][NextRoute]_vars

\* No step of the classified route has 'swapInfo' and a known program id.
NoStepMatches ==
    \A k \in DOMAIN classified.route_plan :
        ~(/\ classified.route_plan[k].swapInfo
          /\ classified.route_plan[k].programId
                 \in {"Raydium", "Orca", "Lifinity"})

\* C14 as stated: when no step matches, a one-step route is Raydium, a
\* longer route is Orca and an empty route is Lifinity; the result is always
\* one of the three venue labels.
C14_ThreeLabels ==
    classified.called =>
        /\ classified.dex \in {"Raydium", "Orca", "Lifinity"}
        /\ NoStepMatches =>
               classified.dex =
                   CASE Len(classified.route_plan) = 1 -> "Raydium"
                     [] Len(classified.route_plan) > 1 -> "Orca"
                     [] OTHER -> "Lifinity"

\* C14 amended: when no step matches, a one-step route is Raydium and a
\* longer route is Orca; an empty route is "Unknown", and only an empty route
\* is; every other result is one of the three venue labels, Lifinity only
\* for a route with a step that holds Lifinity's program id.
C14_FourLabels ==
    classified.called =>
        /\ classified.dex \in {"Raydium", "Orca", "Lifinity", "Unknown"}
        /\ classified.dex = "Unknown" <=> classified.route_plan = <<>>
        /\ NoStepMatches =>
               classified.dex =
                   CASE Len(classified.route_plan) = 1 -> "Raydium"
                     [] Len(classified.route_plan) > 1 -> "Orca"
                     [] OTHER -> "Unknown"
        /\ classified.dex = "Lifinity" =>
               \E k \in DOMAIN classified.route_plan :
                   /\ classified.route_plan[k].swapInfo
                   /\ classified.route_plan[k].programId = "Lifinity"

\* The empty route plan has been classified.
C14_Witness ==
    /\ classified.called
    /\ classified.route_plan = <<>>
    /\ classified.dex = "Unknown"

CountedCalls(api, t) ==
    Cardinality({k \in DOMAIN api_call_times[api] :
                    t - api_call_times[api][k] < 60})

\* C17: when the rate limiter denies an attempt, the first or a retry, the
\* call ends in that step with no request sent, no sleep, no call admitted,
\* and no further attempt.
C17_DenialIsFinal ==
    [][(/\ fetch.pc = "running"
        /\ fetch.attempt <= fetch.max_retries
        /\ CountedCalls(fetch.api, now)
               >= (IF fetch.api = "jupiter" THEN 10 ELSE 15)) =>
            /\ fetch'.pc = "done" /\ fetch'.result = "denied"
            /\ fetch'.requests = fetch.requests
            /\ fetch'.sleeps = fetch.sleeps
            /\ fetch'.waited = fetch.waited
            /\ now' = now
            /\ admitted' = admitted]_vars

\* A call denied on its second attempt: one request, one sleep, then the end.
C17_Witness ==
    /\ fetch.pc = "done" /\ fetch.result = "denied"
    /\ fetch.iterations = 2
    /\ fetch.requests = 1 /\ fetch.sleeps = 1

(***************************************************************************)
(* One pass of the loop over the pairs, whatever the sources answer        *)
(***************************************************************************)
PairInputs ==
    { Unrouted(VWide), Routed(VSkew), Malformed, NonPositive(VNarrow),
      Backup(VNarrow), Throttled, Unpriced, BothDown }

InitPair == InitSched

NextPair ==
    /\ sched.cycle = 1
    /\ \E inp \in PairInputs : FetchPair(inp)

SpecPair == InitPair /\ [][NextPair]_vars

\* Jupiter gave a quote the aggregator can use: a 200 whose amounts are
\* numbers greater than 0.
PrimaryUsable ==
    /\ cyc.last.primary.result = "ok"
    /\ ~cyc.last.payload.malformed
    /\ cyc.last.payload.inAmount > 0
    /\ cyc.last.payload.outAmount > 0

\* C18: in fetch_all_dex_quotes for a configured pair, whenever Jupiter
\* fails (denied, error status, retries used up, malformed or non-positive
\* amounts) CoinGecko is attempted in the same call; CoinGecko is never
\* contacted when Jupiter gave a usable quote; and the quotes of the
\* CoinGecko path are all of source coingecko.
C18_Fallback ==
    cyc.last.pair # "none" =>
        /\ ~PrimaryUsable => cyc.last.secondary.iterations >= 1
        /\ PrimaryUsable =>
               /\ cyc.last.secondary = FetchIdle
               /\ cyc.last.quotes # <<>>
               /\ cyc.last.quotes[1].source = "jupiter"
        /\ cyc.last.secondary.iterations >= 1 =>
               \A k \in DOMAIN cyc.last.quotes :
                   cyc.last.quotes[k].source = "coingecko"

(***************************************************************************)
(* A cycle whose fetches take time                                         *)
(***************************************************************************)
\* Jupiter answers at once, after one backoff (1 s), after two (3 s), or
\* never while CoinGecko is throttled too (6 s).
StaleInputs ==
    { Unrouted(VWide), SlowJupiter(1, VWide), SlowJupiter(2, VWide), Throttled }

InitStale == InitSched

NextStale ==
    \/ /\ sched.cycle = 1
       /\ \E inp \in StaleInputs : FetchPair(inp)
    \/ Generate
    \/ HistoryAppend
    \/ HistoryTrim

SpecStale == InitStale /\ [][NextStale]_vars

\* C19: the detector uses a pair's quote set only if it was stored at most 5
\* seconds before the detection; a pair whose set is older, or missing,
\* gets no opportunity and no history entry in the cycle, and the detection
\* goes on without an error; a set of at most 5 seconds is used.
C19_StaleSkipped ==
    cyc.detected =>
        /\ cyc.raisedAt = 0
        /\ \A p \in Pairs :
               IF ~jupiter_quotes[p].present
                    \/ now - jupiter_quotes[p].timestamp > 5
               THEN /\ cyc.survivors[p] = 0
                    /\ CountOf(current_opportunities, p) = 0
                    /\ cyc.appends[p] = 0
                    /\ price_history[p] = cyc.histStart[p]
               ELSE cyc.survivors[p] =
                        Len(Detect(p, jupiter_quotes[p].data, hashes, now))

\* A detection that skipped a set with quotes 6 seconds old, used one 5
\* seconds old, and published opportunities.
C19_Witness ==
    /\ cyc.detected /\ sched.pc = "sleep"
    /\ \E p \in Pairs :
           /\ now - jupiter_quotes[p].timestamp = 6
           /\ Detect(p, jupiter_quotes[p].data, hashes, now) # <<>>
           /\ CountOf(current_opportunities, p) = 0
    /\ \E q \in Pairs :
           /\ now - jupiter_quotes[q].timestamp = 5
           /\ cyc.appends[q] > 0

(***************************************************************************)
(* The published list from cycle to cycle                                  *)
(***************************************************************************)
\* C20: every cycle replaces the published list: when a cycle has ended, the
\* list holds only opportunities computed in that cycle from that cycle's
\* quote sets, and is empty if the cycle yielded no profitable opportunity.
C20_FullyReplaced ==
    sched.pc = "sleep" =>
        /\ \A k \in DOMAIN current_opportunities :
               /\ cyc.detected
               /\ current_opportunities[k].timestamp = now
               /\ jupiter_quotes[current_opportunities[k].pair].cycle
                      = sched.cycle
        /\ (\A p \in Pairs : cyc.survivors[p] = 0) =>
               current_opportunities = <<>>

(***************************************************************************)
(* The query handlers beside the polling loop                              *)
(***************************************************************************)
\* What the sources answer while the handlers are exercised: Jupiter answers
\* for SOL/USDC and fails for the other pairs, CoinGecko answers.
ServeInput(pair) ==
    IF pair = "SOL/USDC" THEN Unrouted(VWide) ELSE Backup(VNarrow)

\* minPnl: the default 0, and 0.5 percent.
ServeMinPnl == { <<0, 1>>, <<500, 1>> }

\* pair: left out, 'All', and a pair.
ServePairFilters == {"", "All", "SOL/USDC"}

InitServe == FreshStart /\ fetch = FetchIdle /\ ReaderInit

\* A request handled by one of the Flask threads.
QueryStep ==
    \/ \E pair \in QueriedPairs : get_quotes(pair)
    \/ \E min_pnl \in ServeMinPnl : \E pair_filter \in ServePairFilters :
           get_arbitrage_opportunities(min_pnl, pair_filter)
    \/ \E opportunity_id \in TradeIds : simulate_trade(opportunity_id)
    \/ \E pair \in QueriedPairs : get_price_history(pair)
    \/ \E pair \in QueriedPairs : get_price_history_all(pair)
    \/ \E jw, cw \in BOOLEAN : health_check(jw, cw)

NextServe ==
    \/ /\ sched.cycle <= MaxCycles
       /\ FetchPair(ServeInput(TRADING_PAIRS[sched.i]))
    \/ Generate
    \/ HistoryAppend
    \/ Sleep
    \/ QueryStep

SpecServe == InitServe /\ [][NextServe]_vars

\* C21: no query operation (get_quotes, get_arbitrage_opportunities,
\* simulate_trade, both price-history handlers with the synthetic backfill,
\* health_check) changes the quote cache, the published opportunity list, the
\* stored history series or the rate limiter's windows: only the polling loop
\* writes them.
C21_QueriesOnlyRead ==
    [][QueryStep =>
          UNCHANGED <<jupiter_quotes, current_opportunities, price_history,
                      api_call_times>>]_vars

\* A backfilled price-history response, synthetic points in front of stored
\* spreads, was given while the cache, the list, the history and the windows
\* all hold what the loop wrote.
C21_Witness ==
    /\ response.handler = "get_price_history"
    /\ response.pair = "SOL/USDC"
    /\ response.history[1].synthetic
    /\ ~response.history[DisplayPoints].synthetic
    /\ price_history["SOL/USDC"] # <<>>
    /\ Len(price_history["SOL/USDC"]) < DisplayPoints
    /\ current_opportunities # <<>>
    /\ jupiter_quotes["SOL/USDC"].data # <<>>
    /\ api_call_times["jupiter"] # <<>>

(***************************************************************************)
(* Venues and identifiers within one published list                        *)
(***************************************************************************)
\* No two quotes of a set have the same venue label.
DistinctVenues(quotes) ==
    \A i, j \in DOMAIN quotes : i # j => quotes[i].dex # quotes[j].dex

\* C22: every quote set fetch_all_dex_quotes returns has pairwise distinct
\* venue labels; so in the published list every opportunity buys and sells on
\* different venues, no two opportunities have the same pair, buy venue and
\* sell venue, and no two have the same id.
C22_DistinctVenues ==
    /\ DistinctVenues(cyc.last.quotes)
    /\ \A p \in Pairs : DistinctVenues(jupiter_quotes[p].data)
    /\ \A k \in DOMAIN current_opportunities :
           current_opportunities[k].buyDex # current_opportunities[k].sellDex
    /\ \A k, l \in DOMAIN current_opportunities :
           k # l =>
               /\ << current_opportunities[k].pair,
                     current_opportunities[k].buyDex,
                     current_opportunities[k].sellDex >>
                    # << current_opportunities[l].pair,
                         current_opportunities[l].buyDex,
                         current_opportunities[l].sellDex >>
               /\ current_opportunities[k].id # current_opportunities[l].id

\* Jupiter's quote was classified as one of the three venues, the set has a
\* quote for each of the two others and an opportunity of it is published;
\* and the list has two opportunities of one pair with the same buy venue.
C22_Witness ==
    /\ cyc.detected
    /\ \E p \in Pairs :
           /\ Len(jupiter_quotes[p].data) = Len(Dexes)
           /\ jupiter_quotes[p].data[1].source = "jupiter"
           /\ jupiter_quotes[p].data[1].dex = "Orca"
           /\ CountOf(current_opportunities, p) >= 1
    /\ \E k, l \in DOMAIN current_opportunities :
           /\ k # l
           /\ current_opportunities[k].pair = current_opportunities[l].pair
           /\ current_opportunities[k].buyDex = current_opportunities[l].buyDex

(***************************************************************************)
(* The confidence of the opportunities of fetched quote sets               *)
(***************************************************************************)
\* C24: every opportunity computed from quote sets that fetch_all_dex_quotes
\* produced has confidence exactly 100: every produced quote has a liquidity
\* of at least 100000, so the liquidity term is at least 400 and the cap of
\* min(..., 100) applies whatever the spread and the pair's jitter are.
C24_ConfidenceIsCap ==
    /\ \A p \in Pairs : \A k \in DOMAIN jupiter_quotes[p].data :
           jupiter_quotes[p].data[k].liquidity >= 100000
    /\ \A n \in DOMAIN complete : \A k \in DOMAIN complete[n] :
           /\ 40 * (complete[n][k].buyLiquidity + complete[n][k].sellLiquidity)
                  >= 400 * 20000
           /\ RatEq(complete[n][k].confidence, << 100 * 1000, 1 >>)
    /\ \A k \in DOMAIN current_opportunities :
           RatEq(current_opportunities[k].confidence, << 100 * 1000, 1 >>)

\* An opportunity between two quotes of the least liquidity there is, 100000
\* each, with a spread under 2 percent and the largest jitter, is published.
C24_Witness ==
    \E k \in DOMAIN current_opportunities :
        /\ current_opportunities[k].buyLiquidity = 100000
        /\ current_opportunities[k].sellLiquidity = 100000
        /\ current_opportunities[k].spread[1]
               < 2 * 1000 * current_opportunities[k].spread[2]
        /\ hashes.conf[current_opportunities[k].pair] % 30 = 29

(***************************************************************************)
(* The requests and the quote sets of a minute of polling                  *)
(***************************************************************************)
\* What the sources answer over the cycles of a minute: every request is
\* answered with a usable quote, at once; in the first cycle Jupiter may
\* throttle the first request for SOL/USDC, and the answer for JUP/USDC, the
\* last pair of a cycle, may take 5 of the 10 seconds of the timeout.
BudgetInputs(pair, cycle) ==
    IF pair = "SOL/USDC" /\ cycle = 1
    THEN {Unrouted(VWide), SlowJupiter(1, VWide)}
    ELSE IF pair = "JUP/USDC"
    THEN {Unrouted(VWide), Late(Unrouted(VWide), 5)}
    ELSE {Unrouted(VWide)}

InitBudget == FreshStart /\ fetch = FetchIdle /\ ReaderInit

NextBudget ==
    \/ /\ sched.cycle <= MaxBudgetCycles
       /\ \E inp \in BudgetInputs(TRADING_PAIRS[sched.i], sched.cycle) :
              FetchPair(inp)
    \/ Generate
    \/ HistoryAppend
    \/ Sleep

SpecBudget == InitBudget /\ [][NextBudget]_vars

\* How many of the times lie in the window [w, w + 60).
InWindow(times, w) ==
    Cardinality({i \in DOMAIN times :
                    w <= times[i] /\ times[i] < w + RateWindow})

\* Every request the loop sent to a source has its own admitted acquisition
\* at that source, made when the request was sent, and the requests sent to
\* a source in any window of 60 seconds do not exceed the source's budget.
RequestsWithinBudget ==
    /\ \A api \in Sources : pollLog.sent[api] = admitted[api]
    /\ \A api \in Sources : \A w \in 0..now :
           InWindow(pollLog.sent[api], w) <= MAX_CALLS_PER_MINUTE[api]

\* C23 as stated: every request of the polling path, primary or secondary,
\* first attempt or retry, follows its own admitted acquisition, so the
\* requests sent to a source in any window of 60 seconds never exceed its
\* budget; and the non-empty quote sets produced in any such window are at
\* most 25, the sum of the two budgets.
C23_SetsWithinBudgets ==
    /\ RequestsWithinBudget
    /\ \A w \in 0..now :
           InWindow(pollLog.produced, w) <= JupiterBudget + CoingeckoBudget

\* C23 amended: every request of the polling path, primary or secondary,
\* first attempt or retry, follows its own admitted acquisition, so the
\* requests sent to a source in any window of 60 seconds never exceed its
\* budget; and the non-empty quote sets produced in any such window are at
\* most 26, the sum of the two budgets and one: a set is produced when its
\* answer has arrived, and the first set of a window can answer a request
\* sent before the window.
C23_SetsWithinBudgetsAndOne ==
    /\ RequestsWithinBudget
    /\ \A w \in 0..now :
           InWindow(pollLog.produced, w) <= JupiterBudget + CoingeckoBudget + 1

\* A window of 60 seconds in which both budgets were used up, 10 and 15
\* requests sent, and 26 non-empty quote sets were produced.
C23_Witness ==
    \E w \in 0..now :
        /\ InWindow(pollLog.sent["jupiter"], w) = JupiterBudget
        /\ InWindow(pollLog.sent["coingecko"], w) = CoingeckoBudget
        /\ InWindow(pollLog.produced, w) = JupiterBudget + CoingeckoBudget + 1

====
